---- MODULE Spec2Model ----
(***************************************************************************)
(* The board / piece / move-history core of ChessProject as a state        *)
(* machine.  One ChessBoard object, its ChessPiece objects (identified by  *)
(* the numbers 1..32, 0 being nullptr), the stack of Move records, and the *)
(* standard input the round controller reads from.                         *)
(***************************************************************************)
EXTENDS Integers, Sequences, FiniteSets, TLC

\* ChessBoard::BOARD_LENGTH and ChessPiece::BOARD_LENGTH
BOARD_LENGTH == 8

\* nullptr: an empty grid cell, an absent captured piece
NULL == 0

\* Number of successful rounds (moves and undos) a run of the model plays.
MaxRounds == 3

Idx == 0 .. (BOARD_LENGTH - 1)

\* The squares the user types: every row of the king's and the queen's
\* file, and four squares off the board, one for each of the four bounds a
\* coordinate is tested against.
InRows == Idx
InCols == {3, 4}
OffBoard ==
    { << -1, 3 >>, << BOARD_LENGTH, 4 >>, << 3, -1 >>, << 4, BOARD_LENGTH >> }
InSquares == (InRows \X InCols) \cup OffBoard

VARIABLES
    board,          \* ChessBoard::board, board[r][c] a piece or NULL
    playerOneTurn,  \* ChessBoard::playerOneTurn
    past_moves_,    \* ChessBoard::past_moves_, top of the stack last
    color_,         \* ChessPiece::color_ of each piece
    row_,           \* ChessPiece::row_
    column_,        \* ChessPiece::column_
    movingUp_,      \* ChessPiece::movingUp_
    type_,          \* ChessPiece::type_
    has_moved_,     \* ChessPiece::has_moved_
    castle_moves_left_, \* Rook::castle_moves_left_, NULL for the other classes
    cin,            \* what the user has typed for the round about to run
    lastOp,         \* which of move / undo the last round called
    lastRet,        \* what the last round returned
    lastExit,       \* the return statement of move() the last round left by
    start,          \* history: the constructor call that built the board
    trace,          \* history: the successful rounds so far, oldest first
    before          \* history: grid and turn as they were before each recorded Move

vars == << board, playerOneTurn, past_moves_, color_, row_, column_,
           movingUp_, type_, has_moved_, castle_moves_left_, cin, lastOp,
           lastRet, lastExit, start, trace, before >>

pieceVars == << color_, row_, column_, movingUp_, type_, has_moved_,
                castle_moves_left_ >>

(***************************************************************************)
(* Construction of the standard board.                                     *)
(***************************************************************************)
p1_color == "BLACK"
p2_color == "WHITE"

\* The back rank with the queen on column 3 and the king on column 4.
inner_piecesQueenFirst ==
    << "ROOK", "KNIGHT", "BISHOP", "QUEEN", "KING", "BISHOP", "KNIGHT", "ROOK" >>

inner_pieces ==
    << "ROOK", "KNIGHT", "BISHOP", "KING", "QUEEN", "BISHOP", "KNIGHT", "ROOK" >>

\* The piece add_mirrored allocates for cell (r, c); NULL for rows 2..5.
NewPiece(r, c) ==
    CASE r = 0 -> c + 1
      [] r = 1 -> BOARD_LENGTH + c + 1
      [] r = 6 -> 2 * BOARD_LENGTH + c + 1
      [] r = 7 -> 3 * BOARD_LENGTH + c + 1
      [] OTHER -> NULL

PieceIds == 1 .. (4 * BOARD_LENGTH)

\* The cell a piece was constructed for.
CtorRow(p) ==
    CASE p <= BOARD_LENGTH -> 0
      [] p <= 2 * BOARD_LENGTH -> 1
      [] p <= 3 * BOARD_LENGTH -> 6
      [] OTHER -> 7

CtorCol(p) == (p - 1) % BOARD_LENGTH

\* ChessPiece::setRow on the pair <<row_, column_>>
setRow(rc, row) ==
    IF row < 0 \/ row >= BOARD_LENGTH THEN << -1, -1 >> ELSE << row, rc[2] >>

\* ChessPiece::setColumn on the pair <<row_, column_>>
setColumn(rc, column) ==
    IF column < 0 \/ column >= BOARD_LENGTH THEN << -1, -1 >>
    ELSE << rc[1], column >>

\* The capacity the Rook constructor is given when none is supplied.
castle_move_capacity == 3

\* Rook::Rook: castle_moves_left_{ std::max(0, castle_moves_capacity) }
RookCtorCastleMoves(castle_moves_capacity) ==
    IF castle_moves_capacity < 0 THEN 0 ELSE castle_moves_capacity

\* The position the ChessPiece constructor leaves: setRow, then setColumn
\* only if the row was accepted.
CtorPos(row, col) ==
    LET afterRow == setRow(<< -1, -1 >>, row)
    IN  IF afterRow[1] # -1 THEN setColumn(afterRow, col) ELSE afterRow

NoInput == [stage |-> -1, src |-> << 0, 0 >>, dst |-> << 0, 0 >>]

\* One round's input.  stage is the number of integer pairs that parsed:
\* 0 the source pair failed, 1 the destination pair failed, 2 both parsed.
\* The three rounds of an opening on the rook's file: a pawn advances one
\* row, the opposing pawn two rows, the rook steps onto its own knight.
ScenarioInputs ==
    << [stage |-> 2, src |-> << 1, 0 >>, dst |-> << 2, 0 >>],
       [stage |-> 2, src |-> << 6, 0 >>, dst |-> << 4, 0 >>],
       [stage |-> 2, src |-> << 0, 0 >>, dst |-> << 0, 1 >>] >>

Inputs ==
    { [stage |-> 0, src |-> << 0, 0 >>, dst |-> << 0, 0 >>] }
    \cup { [stage |-> 1, src |-> s, dst |-> << 0, 0 >>] : s \in {<< 1, 3 >>} }
    \cup { [stage |-> 2, src |-> s, dst |-> d] : s \in InSquares, d \in InSquares }
    \cup { ScenarioInputs[i] : i \in DOMAIN ScenarioInputs }

\* ChessBoard::ChessBoard(assignedColorP1, assignedColorP2) with its default
\* arguments: the standard board, player one to move.
StandardBoard ==
    /\ start = [ctor |-> "standard", p1Turn |-> TRUE]
    /\ board = [r \in Idx |-> [c \in Idx |-> NewPiece(r, c)]]
    /\ playerOneTurn = TRUE
    /\ color_ = [p \in PieceIds |->
                    IF CtorRow(p) <= 1 THEN p1_color ELSE p2_color]
    /\ row_ = [p \in PieceIds |-> CtorPos(CtorRow(p), CtorCol(p))[1]]
    /\ column_ = [p \in PieceIds |-> CtorPos(CtorRow(p), CtorCol(p))[2]]
    /\ movingUp_ = [p \in PieceIds |-> CtorRow(p) = 1]
    /\ type_ = [p \in PieceIds |->
                    IF CtorRow(p) \in {1, 6} THEN "PAWN"
                    ELSE inner_pieces[CtorCol(p) + 1]]
    /\ has_moved_ = [p \in PieceIds |-> FALSE]
    /\ castle_moves_left_ = [p \in PieceIds |->
                    IF CtorRow(p) \in {0, 7} /\ inner_pieces[CtorCol(p) + 1] = "ROOK"
                    THEN RookCtorCastleMoves(castle_move_capacity) ELSE NULL]

\* The pieces of an injected position, each built by its class's
\* parameterized constructor on the cell it is then placed in: one mover
\* of every type next to the opposing king.
TestPieces ==
    << [type |-> "KING",   color |-> "WHITE", row |-> 4, col |-> 3, up |-> FALSE],
       [type |-> "PAWN",   color |-> "WHITE", row |-> 4, col |-> 4, up |-> FALSE],
       [type |-> "KING",   color |-> "BLACK", row |-> 3, col |-> 3, up |-> FALSE],
       [type |-> "PAWN",   color |-> "BLACK", row |-> 3, col |-> 4, up |-> TRUE],
       [type |-> "KNIGHT", color |-> "BLACK", row |-> 2, col |-> 4, up |-> FALSE],
       [type |-> "BISHOP", color |-> "BLACK", row |-> 5, col |-> 4, up |-> FALSE],
       [type |-> "QUEEN",  color |-> "BLACK", row |-> 6, col |-> 3, up |-> FALSE],
       [type |-> "ROOK",   color |-> "BLACK", row |-> 7, col |-> 3, up |-> FALSE] >>

\* The grid handed to the injecting constructor.
TestCell(r, c) ==
    LET here == { i \in 1 .. Len(TestPieces) :
                    TestPieces[i].row = r /\ TestPieces[i].col = c }
    IN  IF here = {} THEN NULL ELSE CHOOSE i \in here : TRUE

\* ChessBoard::ChessBoard(instance, p1Turn).  Piece numbers beyond the
\* injected ones name no object; they carry ChessPiece()'s defaults and are
\* in no cell.
InjectedBoard ==
    /\ start \in { [ctor |-> "injected", p1Turn |-> t] : t \in BOOLEAN }
    /\ board = [r \in Idx |-> [c \in Idx |-> TestCell(r, c)]]
    /\ playerOneTurn = start.p1Turn
    /\ color_ = [p \in PieceIds |->
                    IF p <= Len(TestPieces) THEN TestPieces[p].color ELSE "BLACK"]
    /\ row_ = [p \in PieceIds |->
                    IF p <= Len(TestPieces)
                    THEN CtorPos(TestPieces[p].row, TestPieces[p].col)[1] ELSE -1]
    /\ column_ = [p \in PieceIds |->
                    IF p <= Len(TestPieces)
                    THEN CtorPos(TestPieces[p].row, TestPieces[p].col)[2] ELSE -1]
    /\ movingUp_ = [p \in PieceIds |->
                    IF p <= Len(TestPieces) THEN TestPieces[p].up ELSE FALSE]
    /\ type_ = [p \in PieceIds |->
                    IF p <= Len(TestPieces) THEN TestPieces[p].type ELSE "NULL"]
    /\ has_moved_ = [p \in PieceIds |-> FALSE]
    /\ castle_moves_left_ = [p \in PieceIds |->
                    IF p <= Len(TestPieces) /\ TestPieces[p].type = "ROOK"
                    THEN RookCtorCastleMoves(castle_move_capacity) ELSE NULL]

\* ChessBoard::pieces, the pieces the board owns: every non-null cell of
\* the grid the constructor was left with.  No other statement adds to the
\* list or removes from it.
pieces ==
    IF start.ctor = "standard"
    THEN { NewPiece(r, c) : r \in Idx, c \in Idx } \ {NULL}
    ELSE { TestCell(r, c) : r \in Idx, c \in Idx } \ {NULL}

Init ==
    /\ StandardBoard \/ InjectedBoard
    /\ past_moves_ = << >>
    /\ cin = NoInput
    /\ lastOp = "none"
    /\ lastRet = FALSE
    /\ lastExit = "none"
    /\ trace = << >>
    /\ before = << >>

(***************************************************************************)
(* The movement predicates.                                                *)
(***************************************************************************)
Abs(x) == IF x < 0 THEN -x ELSE x

\* The guards every canMove starts with: the piece is on the board, the
\* target is on the board, the target holds no piece of the mover's colour.
OffBoardPiece(p) == row_[p] = -1 \/ column_[p] = -1

OutOfBounds(target_row, target_col) ==
    \/ target_row < 0
    \/ target_row >= BOARD_LENGTH
    \/ target_col < 0
    \/ target_col >= BOARD_LENGTH

\* canMove without the test of the target piece's colour.
SameColorTargetNever(p, target_row, target_col) == FALSE

SameColorTarget(p, target_row, target_col) ==
    LET target_piece == board[target_row][target_col]
    IN  target_piece # NULL /\ color_[target_piece] = color_[p]

\* A pawn that may never advance two rows.
canDoubleJumpNever(p) == FALSE

\* Pawn::canDoubleJump
canDoubleJump(p) == ~has_moved_[p]

\* A pawn whose two-row advance needs the cell it passes over to be empty.
PawnCanMoveClearJump(p, target_row, target_col) ==
    IF OffBoardPiece(p) THEN FALSE
    ELSE IF OutOfBounds(target_row, target_col) THEN FALSE
    ELSE IF SameColorTarget(p, target_row, target_col) THEN FALSE
    ELSE
      LET target_piece == board[target_row][target_col]
          direction == IF movingUp_[p] THEN 1 ELSE -1
          can_move_straight ==
              /\ target_piece = NULL
              /\ column_[p] = target_col
              /\ \/ row_[p] + direction = target_row
                 \/ /\ canDoubleJump(p)
                    /\ row_[p] + direction * 2 = target_row
                    /\ board[row_[p] + direction][column_[p]] = NULL
          can_capture_diagonal ==
              /\ target_piece # NULL
              /\ Abs(column_[p] - target_col) = 1
              /\ row_[p] + direction = target_row
      IN  can_move_straight \/ can_capture_diagonal

\* Pawn::canMove
PawnCanMove(p, target_row, target_col) ==
    IF OffBoardPiece(p) THEN FALSE
    ELSE IF OutOfBounds(target_row, target_col) THEN FALSE
    ELSE IF SameColorTarget(p, target_row, target_col) THEN FALSE
    ELSE
      LET target_piece == board[target_row][target_col]
          direction == IF movingUp_[p] THEN 1 ELSE -1
          can_move_straight ==
              /\ target_piece = NULL
              /\ column_[p] = target_col
              /\ \/ row_[p] + direction = target_row
                 \/ canDoubleJump(p) /\ row_[p] + direction * 2 = target_row
          can_capture_diagonal ==
              /\ target_piece # NULL
              /\ Abs(column_[p] - target_col) = 1
              /\ row_[p] + direction = target_row
      IN  can_move_straight \/ can_capture_diagonal

\* The rook's while loop: step, then test the cell stepped onto, until the
\* target has been stepped onto.
RECURSIVE RookScan(_, _, _, _, _, _)
RookScan(temp_row, temp_col, target_row, target_col, increment_row, increment_col) ==
    IF temp_row = target_row /\ temp_col = target_col THEN TRUE
    ELSE LET r == temp_row + increment_row
             c == temp_col + increment_col
         IN  IF board[r][c] # NULL THEN FALSE
             ELSE RookScan(r, c, target_row, target_col,
                           increment_row, increment_col)

RookCanMove(p, target_row, target_col) ==
    IF OffBoardPiece(p) THEN FALSE
    ELSE IF OutOfBounds(target_row, target_col) THEN FALSE
    ELSE IF SameColorTarget(p, target_row, target_col) THEN FALSE
    ELSE
      LET row_difference == target_row - row_[p]
          col_difference == target_col - column_[p]
          stays_in_same_position == row_difference = 0 /\ col_difference = 0
          moves_straight == row_difference = 0 \/ col_difference = 0
          increment_row == IF row_difference > 0 THEN 1
                           ELSE IF row_difference < 0 THEN -1 ELSE 0
          increment_col == IF col_difference > 0 THEN 1
                           ELSE IF col_difference < 0 THEN -1 ELSE 0
      IN  IF stays_in_same_position \/ ~moves_straight THEN FALSE
          ELSE RookScan(row_[p], column_[p], target_row, target_col,
                        increment_row, increment_col)

\* A knight that knows one of its two shapes only.
KnightCanMoveOneShape(p, target_row, target_col) ==
    IF OffBoardPiece(p) THEN FALSE
    ELSE IF OutOfBounds(target_row, target_col) THEN FALSE
    ELSE IF SameColorTarget(p, target_row, target_col) THEN FALSE
    ELSE
      LET abs_dx == Abs(row_[p] - target_row)
          abs_dy == Abs(column_[p] - target_col)
      IN  abs_dx = 1 /\ abs_dy = 2

\* Knight::canMove
KnightCanMove(p, target_row, target_col) ==
    IF OffBoardPiece(p) THEN FALSE
    ELSE IF OutOfBounds(target_row, target_col) THEN FALSE
    ELSE IF SameColorTarget(p, target_row, target_col) THEN FALSE
    ELSE
      LET abs_dx == Abs(row_[p] - target_row)
          abs_dy == Abs(column_[p] - target_col)
      IN  (abs_dx = 1 /\ abs_dy = 2) \/ (abs_dx = 2 /\ abs_dy = 1)

\* dx / std::abs(dx) for dx # 0
Sign(x) == IF x > 0 THEN 1 ELSE -1

\* A bishop that looks at no cell on its way.
BishopScanNone(p, dx, dy, row_offset, col_offset) == TRUE

\* The bishop's loop  while ((dx -= row_offset) != 0 && (dy -= col_offset) != 0):
\* dx is stepped first and the loop ends as soon as either offset reaches 0.
RECURSIVE BishopScan(_, _, _, _, _)
BishopScan(p, dx, dy, row_offset, col_offset) ==
    LET dx1 == dx - row_offset
    IN  IF dx1 = 0 THEN TRUE
        ELSE LET dy1 == dy - col_offset
             IN  IF dy1 = 0 THEN TRUE
                 ELSE IF board[row_[p] + dx1][column_[p] + dy1] # NULL THEN FALSE
                 ELSE BishopScan(p, dx1, dy1, row_offset, col_offset)

BishopCanMove(p, target_row, target_col) ==
    IF OffBoardPiece(p) THEN FALSE
    ELSE IF OutOfBounds(target_row, target_col) THEN FALSE
    ELSE IF SameColorTarget(p, target_row, target_col) THEN FALSE
    ELSE
      LET dx == target_row - row_[p]
          dy == target_col - column_[p]
          not_diagonal == Abs(dx) # Abs(dy)
          no_movement == dx = 0 /\ dy = 0
      IN  IF not_diagonal \/ no_movement THEN FALSE
          ELSE BishopScan(p, dx, dy, Sign(dx), Sign(dy))

\* The queen's loop, the same statement as the bishop's, with an offset of 0
\* along a row or a column.
RECURSIVE QueenScan(_, _, _, _, _)
QueenScan(p, dx, dy, row_offset, col_offset) ==
    LET dx1 == dx - row_offset
    IN  IF dx1 = 0 THEN TRUE
        ELSE LET dy1 == dy - col_offset
             IN  IF dy1 = 0 THEN TRUE
                 ELSE IF board[row_[p] + dx1][column_[p] + dy1] # NULL THEN FALSE
                 ELSE QueenScan(p, dx1, dy1, row_offset, col_offset)

QueenCanMove(p, target_row, target_col) ==
    IF OffBoardPiece(p) THEN FALSE
    ELSE IF OutOfBounds(target_row, target_col) THEN FALSE
    ELSE IF SameColorTarget(p, target_row, target_col) THEN FALSE
    ELSE
      LET dx == target_row - row_[p]
          dy == target_col - column_[p]
          no_movement == dx = 0 /\ dy = 0
          not_straight == dx # 0 /\ dy # 0
          not_diagonal == Abs(dx) # Abs(dy)
          row_offset == IF dx # 0 THEN Sign(dx) ELSE 0
          col_offset == IF dy # 0 THEN Sign(dy) ELSE 0
      IN  IF no_movement \/ (not_straight /\ not_diagonal) THEN FALSE
          ELSE QueenScan(p, dx, dy, row_offset, col_offset)

\* A king whose column delta is not tested.
KingCanMoveAnyColumn(p, target_row, target_col) ==
    IF OffBoardPiece(p) THEN FALSE
    ELSE IF OutOfBounds(target_row, target_col) THEN FALSE
    ELSE IF SameColorTarget(p, target_row, target_col) THEN FALSE
    ELSE /\ target_row # row_[p] \/ target_col # column_[p]
         /\ Abs(target_row - row_[p]) <= 1

\* King::canMove
KingCanMove(p, target_row, target_col) ==
    IF OffBoardPiece(p) THEN FALSE
    ELSE IF OutOfBounds(target_row, target_col) THEN FALSE
    ELSE IF SameColorTarget(p, target_row, target_col) THEN FALSE
    ELSE /\ target_row # row_[p] \/ target_col # column_[p]
         /\ Abs(target_row - row_[p]) <= 1
         /\ Abs(target_col - column_[p]) <= 1

\* The virtual call movingPiece->canMove(new_row, new_col, board)
canMove(p, target_row, target_col) ==
    CASE type_[p] = "PAWN" -> PawnCanMove(p, target_row, target_col)
      [] type_[p] = "ROOK" -> RookCanMove(p, target_row, target_col)
      [] type_[p] = "KNIGHT" -> KnightCanMove(p, target_row, target_col)
      [] type_[p] = "BISHOP" -> BishopCanMove(p, target_row, target_col)
      [] type_[p] = "QUEEN" -> QueenCanMove(p, target_row, target_col)
      [] type_[p] = "KING" -> KingCanMove(p, target_row, target_col)

(***************************************************************************)
(* The grid cells a call indexes, as pairs << row, column >>.              *)
(***************************************************************************)
\* The cells the rook's loop tests: each cell stepped onto, up to the first
\* occupied one or the target.
RECURSIVE RookScanCells(_, _, _, _, _, _)
RookScanCells(temp_row, temp_col, target_row, target_col, increment_row, increment_col) ==
    IF temp_row = target_row /\ temp_col = target_col THEN {}
    ELSE LET r == temp_row + increment_row
             c == temp_col + increment_col
         IN  { << r, c >> } \cup
             ( IF OutOfBounds(r, c) THEN {}
               ELSE IF board[r][c] # NULL THEN {}
               ELSE RookScanCells(r, c, target_row, target_col,
                                  increment_row, increment_col) )

\* The cells the loop of the bishop and of the queen tests.
RECURSIVE OffsetScanCells(_, _, _, _, _)
OffsetScanCells(p, dx, dy, row_offset, col_offset) ==
    LET dx1 == dx - row_offset
    IN  IF dx1 = 0 THEN {}
        ELSE LET dy1 == dy - col_offset
                 r == row_[p] + dx1
                 c == column_[p] + dy1
             IN  IF dy1 = 0 THEN {}
                 ELSE { << r, c >> } \cup
                      ( IF OutOfBounds(r, c) THEN {}
                        ELSE IF board[r][c] # NULL THEN {}
                        ELSE OffsetScanCells(p, dx1, dy1, row_offset, col_offset) )

\* The cells of its board argument canMove(target_row, target_col, board)
\* of piece p indexes: the target, after the two guards, and the cells of
\* the scan of a rook, a bishop or a queen.
canMoveReads(p, target_row, target_col) ==
    IF OffBoardPiece(p) \/ OutOfBounds(target_row, target_col) THEN {}
    ELSE
      LET dx == target_row - row_[p]
          dy == target_col - column_[p]
          no_movement == dx = 0 /\ dy = 0
          straight == dx = 0 \/ dy = 0
          diagonal == Abs(dx) = Abs(dy)
          scanned ==
              CASE type_[p] = "ROOK" /\ straight /\ ~no_movement ->
                       RookScanCells(row_[p], column_[p], target_row, target_col,
                                     IF dx > 0 THEN 1 ELSE IF dx < 0 THEN -1 ELSE 0,
                                     IF dy > 0 THEN 1 ELSE IF dy < 0 THEN -1 ELSE 0)
                [] type_[p] = "BISHOP" /\ diagonal /\ ~no_movement ->
                       OffsetScanCells(p, dx, dy, Sign(dx), Sign(dy))
                [] type_[p] = "QUEEN" /\ (straight \/ diagonal) /\ ~no_movement ->
                       OffsetScanCells(p, dx, dy,
                                       IF dx # 0 THEN Sign(dx) ELSE 0,
                                       IF dy # 0 THEN Sign(dy) ELSE 0)
                [] OTHER -> {}
      IN  { << target_row, target_col >> } \cup
          ( IF SameColorTarget(p, target_row, target_col) THEN {} ELSE scanned )

(***************************************************************************)
(* ChessBoard::move                                                        *)
(***************************************************************************)
\* move() without the test of the mover's colour against the colour in play.
moveExitAnyColor(row, col, new_row, new_col) ==
    IF row < 0 \/ col < 0 \/ row >= BOARD_LENGTH \/ col >= BOARD_LENGTH
    THEN "source_off_board"
    ELSE
      LET movingPiece == board[row][col]
      IN  IF movingPiece = NULL THEN "no_piece"
          ELSE IF ~canMove(movingPiece, new_row, new_col) THEN "cannot_move"
          ELSE
            LET captured_piece == board[new_row][new_col]
            IN  IF captured_piece # NULL /\ type_[captured_piece] = "KING"
                THEN "king"
                ELSE "moved"

\* move() without the test for a king on the destination.
moveExitNoKingCheck(row, col, new_row, new_col) ==
    IF row < 0 \/ col < 0 \/ row >= BOARD_LENGTH \/ col >= BOARD_LENGTH
    THEN "source_off_board"
    ELSE
      LET movingPiece == board[row][col]
          colorInPlay == IF playerOneTurn THEN p1_color ELSE p2_color
      IN  IF movingPiece = NULL THEN "no_piece"
          ELSE IF color_[movingPiece] # colorInPlay THEN "wrong_color"
          ELSE IF ~canMove(movingPiece, new_row, new_col) THEN "cannot_move"
          ELSE "moved"

\* The return statement move(row, col, new_row, new_col) leaves by, the
\* guards in the order of the code.
moveExit(row, col, new_row, new_col) ==
    IF row < 0 \/ col < 0 \/ row >= BOARD_LENGTH \/ col >= BOARD_LENGTH
    THEN "source_off_board"
    ELSE
      LET movingPiece == board[row][col]
          colorInPlay == IF playerOneTurn THEN p1_color ELSE p2_color
      IN  IF movingPiece = NULL THEN "no_piece"
          ELSE IF color_[movingPiece] # colorInPlay THEN "wrong_color"
          ELSE IF ~canMove(movingPiece, new_row, new_col) THEN "cannot_move"
          ELSE
            LET captured_piece == board[new_row][new_col]
            IN  IF captured_piece # NULL /\ type_[captured_piece] = "KING"
                THEN "king"
                ELSE "moved"

\* move() without the test of the source coordinates: the source cell is
\* indexed whatever they are.
moveReadsNoSourceTest(row, col, new_row, new_col) == { << row, col >> }

\* The cells of the grid move(row, col, new_row, new_col) reads, itself and
\* through canMove.
moveReads(row, col, new_row, new_col) ==
    IF row < 0 \/ col < 0 \/ row >= BOARD_LENGTH \/ col >= BOARD_LENGTH THEN {}
    ELSE
      LET movingPiece == board[row][col]
          colorInPlay == IF playerOneTurn THEN p1_color ELSE p2_color
      IN  { << row, col >> } \cup
          ( IF movingPiece = NULL THEN {}
            ELSE IF color_[movingPiece] # colorInPlay THEN {}
            ELSE canMoveReads(movingPiece, new_row, new_col) \cup
                 ( IF canMove(movingPiece, new_row, new_col)
                   THEN { << new_row, new_col >> } ELSE {} ) )

\* The cells of the grid move(row, col, new_row, new_col) assigns.
moveWrites(row, col, new_row, new_col) ==
    IF moveExit(row, col, new_row, new_col) = "moved"
    THEN { << new_row, new_col >>, << row, col >> }
    ELSE {}

\* move() with the king test placed after the assignments.
moveCommitsBeforeKingCheck(exit) == exit \in {"moved", "king"}

\* Whether move() leaving by this return statement has passed the
\* assignments to the grid and to the moving piece.
moveCommits(exit) == exit = "moved"

\* move() returning true from the return statement of the king test.
moveReturnsTrueOnKing(exit) == exit \in {"moved", "king"}

\* move()'s return value at each of its return statements
moveReturns(exit) == exit = "moved"

\* move() without the assignment that empties the source cell.
moveBoardKeepsSource(b, row, col, new_row, new_col) ==
    [b EXCEPT ![new_row][new_col] = b[row][col]]

\* The grid after the two assignments of a successful move.
moveBoard(b, row, col, new_row, new_col) ==
    LET movingPiece == b[row][col]
        b1 == [b EXCEPT ![new_row][new_col] = movingPiece]
    IN  [b1 EXCEPT ![row][col] = NULL]

\* ChessPiece::flagMoved of piece p
flagMoved(hm, p) == [hm EXCEPT ![p] = TRUE]

\* Move::Move
Move(from, to, moved_piece, captured_piece) ==
    [from_ |-> from, to_ |-> to, moved_piece_ |-> moved_piece,
     captured_piece_ |-> captured_piece]

\* The Move attemptRound builds after a successful move, from the grid as
\* the move left it: the captured-piece argument keeps its default.
new_move(b, target_piece, target_location) ==
    Move(target_piece, target_location,
         b[target_location[1]][target_location[2]], NULL)

\* attemptRound without the toggle of step 7.
toggleTurnStuck(t) == t

\* playerOneTurn = playerOneTurn ? 0 : 1
toggleTurn(t) == IF t THEN FALSE ELSE TRUE

(***************************************************************************)
(* ChessBoard::undo                                                        *)
(***************************************************************************)
\* undo() without the assignment that empties the target cell.
undoBoardKeepsTarget(b, previous_move) ==
    [b EXCEPT ![previous_move.from_[1]][previous_move.from_[2]] =
                  b[previous_move.to_[1]][previous_move.to_[2]]]

\* The grid after undo() has reverted previous_move.
undoBoard(b, previous_move) ==
    LET from == previous_move.from_
        to == previous_move.to_
        b1 == [b EXCEPT ![from[1]][from[2]] = b[to[1]][to[2]]]
        b2 == [b1 EXCEPT ![to[1]][to[2]] = NULL]
    IN  IF previous_move.captured_piece_ # NULL
        THEN [b2 EXCEPT ![to[1]][to[2]] = previous_move.captured_piece_]
        ELSE b2

Top(stack) == stack[Len(stack)]
\* A pop that leaves the top Move on the stack.
PopNothing(stack) == stack

Pop(stack) == SubSeq(stack, 1, Len(stack) - 1)

\* The cells of the grid undo() reads and assigns.
undoCells(stack) ==
    IF stack = << >> THEN {} ELSE { Top(stack).from_, Top(stack).to_ }

\* The return statement undo() leaves by.
undoExit(stack) == IF stack = << >> THEN "empty" ELSE "reverted"

\* undo() returning true from its first return statement too.
undoReturnsTrue(exit) == TRUE

\* undo()'s return value at each of its two return statements
undoReturns(exit) == exit = "reverted"

\* undo(), and what attemptRound does with its result: it returns it and
\* leaves playerOneTurn as it is.
undo ==
    LET exit == undoExit(past_moves_)
    IN  /\ lastRet' = undoReturns(exit)
        /\ IF exit = "empty"
           THEN UNCHANGED << board, past_moves_, trace, before >>
           ELSE /\ board' = undoBoard(board, Top(past_moves_))
                /\ past_moves_' = Pop(past_moves_)
                /\ trace' = Append(trace, [op |-> "undo", color |-> "none"])
                /\ before' = Pop(before)

(***************************************************************************)
(* ChessBoard::attemptRound, and the user at the prompt.                   *)
(***************************************************************************)
\* The user types the input of the next round.
UserInput ==
    /\ cin = NoInput
    /\ Len(trace) < MaxRounds
    /\ cin' \in Inputs
    /\ lastOp' = "none"
    /\ lastRet' = FALSE
    /\ lastExit' = "none"
    /\ UNCHANGED << board, playerOneTurn, past_moves_, pieceVars, start,
                    trace, before >>

\* std::cin fails on the source pair: the round is an undo.
UndoOnFirstInput ==
    /\ cin.stage = 0
    /\ undo
    /\ lastOp' = "undo"
    /\ lastExit' = "none"
    /\ UNCHANGED << playerOneTurn, pieceVars >>

\* std::cin fails on the destination pair: the round is an undo.
UndoOnSecondInput ==
    /\ cin.stage = 1
    /\ undo
    /\ lastOp' = "undo"
    /\ lastExit' = "none"
    /\ UNCHANGED << playerOneTurn, pieceVars >>

\* Both pairs parsed: move(), and on success the Move is pushed and the
\* turn toggled.
MoveRound ==
    /\ cin.stage = 2
    /\ LET row == cin.src[1]
           col == cin.src[2]
           new_row == cin.dst[1]
           new_col == cin.dst[2]
           exit == moveExit(row, col, new_row, new_col)
           movingPiece == board[row][col]
           rc == setColumn(setRow(<< row_[movingPiece], column_[movingPiece] >>,
                                  new_row),
                           new_col)
       IN  /\ lastOp' = "move"
           /\ lastExit' = exit
           /\ lastRet' = moveReturns(exit)
           /\ IF moveCommits(exit)
              THEN /\ board' = moveBoard(board, row, col, new_row, new_col)
                   /\ row_' = [row_ EXCEPT ![movingPiece] = rc[1]]
                   /\ column_' = [column_ EXCEPT ![movingPiece] = rc[2]]
                   /\ has_moved_' = flagMoved(has_moved_, movingPiece)
                   /\ UNCHANGED << color_, movingUp_, type_, castle_moves_left_ >>
              ELSE UNCHANGED << board, pieceVars >>
           /\ IF moveReturns(exit)
              THEN /\ past_moves_' =
                          Append(past_moves_, new_move(board', cin.src, cin.dst))
                   /\ playerOneTurn' = toggleTurn(playerOneTurn)
                   /\ trace' = Append(trace,
                          [op |-> "move", color |-> color_[movingPiece]])
                   /\ before' = Append(before,
                          [board |-> board, playerOneTurn |-> playerOneTurn])
              ELSE UNCHANGED << playerOneTurn, past_moves_, trace, before >>

attemptRound ==
    /\ cin # NoInput
    /\ cin' = NoInput
    /\ UNCHANGED start
    /\ \/ UndoOnFirstInput
       \/ UndoOnSecondInput
       \/ MoveRound

Next == UserInput \/ attemptRound

Spec == Init /\ [][Next]_vars

(***************************************************************************)
(* canMove called directly on one piece, as a test of the piece classes    *)
(* does: a piece is constructed, a grid is built around it, and canMove is *)
(* called once with that grid.                                             *)
(***************************************************************************)
\* The object canMove is called on.
this == 1

\* Number of further pieces in the grid handed to canMove.
MaxOthers == 1

PieceTypes == {"PAWN", "ROOK", "KNIGHT", "BISHOP", "QUEEN", "KING"}

\* The constructor arguments of the piece: a cell in the middle of the
\* board, or the default row and column of a piece not put on the board.
ThisSquares == { << 3, 3 >>, << -1, -1 >> }

\* The cells the further pieces stand on: up to two steps from the middle
\* cell along every line, and every cell a knight reaches from it.
OtherSquares == ((1 .. 5) \X (1 .. 5)) \ { << 3, 3 >> }

\* The targets canMove is called with: every cell, and the cells one step
\* beyond each edge.
Targets == (-1 .. BOARD_LENGTH) \X (-1 .. BOARD_LENGTH)

\* Row-major order of the cells.
Earlier(a, b) == a[1] < b[1] \/ (a[1] = b[1] /\ a[2] < b[2])

\* The further pieces: at most MaxOthers of them, on distinct cells, of
\* either colour.  others[i] is piece this + i.
OtherPlacements ==
    UNION { { o \in [1 .. n -> [sq : OtherSquares, color : {p1_color, p2_color}]] :
                \A i \in 1 .. (n - 1) : Earlier(o[i].sq, o[i + 1].sq) } :
            n \in 0 .. MaxOthers }

\* The grid built around the piece: the piece itself on its cell if it is on
\* the board, and the further pieces.
PieceGrid(pos, others) ==
    [r \in Idx |-> [c \in Idx |->
        IF << r, c >> = pos THEN this
        ELSE LET here == { i \in DOMAIN others : others[i].sq = << r, c >> }
             IN  IF here = {} THEN NULL ELSE this + (CHOOSE i \in here : TRUE)]]

\* A piece of one of the six classes is constructed, flagMoved() is called
\* on it or not, and the grid is built.
PieceInit ==
    /\ \E t \in PieceTypes, sq \in ThisSquares, others \in OtherPlacements,
          up \in BOOLEAN, moved \in BOOLEAN :
          LET pos == CtorPos(sq[1], sq[2])
              n == Len(others)
          IN  /\ t # "PAWN" => (~up /\ ~moved)
              /\ board = PieceGrid(pos, others)
              /\ type_ = [p \in PieceIds |->
                              IF p = this THEN t
                              ELSE IF p <= this + n THEN "PAWN" ELSE "NULL"]
              /\ color_ = [p \in PieceIds |->
                              IF p > this /\ p <= this + n
                              THEN others[p - this].color ELSE "BLACK"]
              /\ row_ = [p \in PieceIds |->
                              IF p = this THEN pos[1]
                              ELSE IF p <= this + n THEN others[p - this].sq[1]
                              ELSE -1]
              /\ column_ = [p \in PieceIds |->
                              IF p = this THEN pos[2]
                              ELSE IF p <= this + n THEN others[p - this].sq[2]
                              ELSE -1]
              /\ movingUp_ = [p \in PieceIds |-> p = this /\ up]
              /\ has_moved_ = [p \in PieceIds |-> p = this /\ moved]
              /\ castle_moves_left_ = [p \in PieceIds |->
                              IF p = this /\ t = "ROOK"
                              THEN RookCtorCastleMoves(castle_move_capacity)
                              ELSE NULL]
    /\ start = [ctor |-> "piece", p1Turn |-> TRUE]
    /\ playerOneTurn = TRUE
    /\ past_moves_ = << >>
    /\ cin = NoInput
    /\ lastOp = "none"
    /\ lastRet = FALSE
    /\ lastExit = "none"
    /\ trace = << >>
    /\ before = << >>

\* this->canMove(target_row, target_col, board): the arguments are kept in
\* cin.dst, the value returned in lastRet.
CallCanMove ==
    /\ lastOp = "none"
    /\ \E target \in Targets :
          /\ cin' = [stage |-> 2, src |-> << row_[this], column_[this] >>,
                     dst |-> target]
          /\ lastRet' = canMove(this, target[1], target[2])
    /\ lastOp' = "canMove"
    /\ UNCHANGED << board, playerOneTurn, past_moves_, pieceVars, lastExit,
                    start, trace, before >>

PieceNext == CallCanMove

PieceSpec == PieceInit /\ [][PieceNext]_vars

(***************************************************************************)
(* The setters of one ChessPiece called directly.  In these specifications *)
(* a std::string is the sequence of its characters, lastOp names the call  *)
(* last made, cin holds its arguments and lastRet the value it returned.   *)
(***************************************************************************)
UpperCase ==
    << "A", "B", "C", "D", "E", "F", "G", "H", "I", "J", "K", "L", "M",
       "N", "O", "P", "Q", "R", "S", "T", "U", "V", "W", "X", "Y", "Z" >>

LowerCase ==
    << "a", "b", "c", "d", "e", "f", "g", "h", "i", "j", "k", "l", "m",
       "n", "o", "p", "q", "r", "s", "t", "u", "v", "w", "x", "y", "z" >>

\* std::isalpha and std::toupper in the "C" locale
isalpha(ch) ==
    \E i \in DOMAIN UpperCase : ch = UpperCase[i] \/ ch = LowerCase[i]

toupper(ch) ==
    IF \E i \in DOMAIN LowerCase : ch = LowerCase[i]
    THEN UpperCase[CHOOSE i \in DOMAIN LowerCase : ch = LowerCase[i]]
    ELSE ch

\* The value of color_ the ChessPiece constructors start from, "BLACK".
DefaultColor == << "B", "L", "A", "C", "K" >>

\* The for loop of setColor from index i on: the upper-cased characters up
\* to the first one that is not alphabetic.
RECURSIVE uppercase(_, _)
uppercase(color, i) ==
    IF i <= Len(color) /\ isalpha(color[i])
    THEN << toupper(color[i]) >> \o uppercase(color, i + 1)
    ELSE << >>

\* setColor that stores whatever the loop has upper-cased.
setColorStoresPrefix(old, color) ==
    [ret |-> Len(uppercase(color, 1)) = Len(color),
     color_ |-> uppercase(color, 1)]

\* ChessPiece::setColor(color) on a piece whose color_ is old: the value
\* returned and the color_ it leaves.
setColor(old, color) ==
    IF Len(uppercase(color, 1)) = Len(color)
    THEN [ret |-> TRUE, color_ |-> uppercase(color, 1)]
    ELSE [ret |-> FALSE, color_ |-> old]

\* The color_ the parameterized ChessPiece constructor leaves.
CtorColor(color) == setColor(DefaultColor, color).color_

\* Longest string handed to the constructor and to setColor.
MaxColorLen == 2

\* The characters of those strings: letters of either case and a digit.
ColorChars == {"a", "B", "z", "1"}

ColorStrings ==
    UNION { [1 .. n -> ColorChars] : n \in 0 .. MaxColorLen }

\* The members of the board, when an object is used without one.
NoBoard ==
    /\ board = [r \in Idx |-> [c \in Idx |-> NULL]]
    /\ playerOneTurn = TRUE
    /\ past_moves_ = << >>
    /\ lastExit = "none"
    /\ trace = << >>
    /\ before = << >>

\* Pawn(color): a piece constructed with an arbitrary string as its colour
\* and the default row and column.
ColorInit ==
    /\ NoBoard
    /\ start = [ctor |-> "piece", p1Turn |-> TRUE]
    /\ \E color \in ColorStrings :
          /\ cin = [color |-> color]
          /\ color_ = [p \in PieceIds |->
                          IF p = this THEN CtorColor(color) ELSE DefaultColor]
    /\ lastOp = "ChessPiece"
    /\ lastRet = FALSE
    /\ row_ = [p \in PieceIds |-> -1]
    /\ column_ = [p \in PieceIds |-> -1]
    /\ movingUp_ = [p \in PieceIds |-> FALSE]
    /\ type_ = [p \in PieceIds |-> IF p = this THEN "PAWN" ELSE "NULL"]
    /\ has_moved_ = [p \in PieceIds |-> FALSE]
    /\ castle_moves_left_ = [p \in PieceIds |-> NULL]

\* this->setColor(color)
CallSetColor ==
    /\ \E color \in ColorStrings :
          /\ cin' = [color |-> color]
          /\ color_' = [color_ EXCEPT ![this] = setColor(color_[this], color).color_]
          /\ lastRet' = setColor(color_[this], color).ret
    /\ lastOp' = "setColor"
    /\ UNCHANGED << board, playerOneTurn, past_moves_, row_, column_, movingUp_,
                    type_, has_moved_, castle_moves_left_, lastExit, start,
                    trace, before >>

ColorNext == CallSetColor

ColorSpec == ColorInit /\ [][ColorNext]_vars

(***************************************************************************)
(* ChessBoard(assignedColorP1, assignedColorP2): the constructor that      *)
(* takes the two display colours.  cin holds its arguments, and start the  *)
(* values it leaves in the members p1_color and p2_color.                  *)
(***************************************************************************)
BLACK == << "B", "L", "A", "C", "K" >>
WHITE == << "W", "H", "I", "T", "E" >>

ALLOWED_COLORS ==
    { BLACK,
      << "R", "E", "D" >>,
      << "G", "R", "E", "E", "N" >>,
      << "Y", "E", "L", "L", "O", "W" >>,
      << "B", "L", "U", "E" >>,
      << "M", "A", "G", "E", "N", "T", "A" >>,
      << "C", "Y", "A", "N" >>,
      WHITE }

\* The strings the constructor is called with: the allowed colours, one of
\* them in lower case, a colour that has no code, and the empty string.
ColorArgs ==
    ALLOWED_COLORS \cup { << "r", "e", "d" >>, << "P", "I", "N", "K" >>, << >> }

\* The validation without the test for two equal colours.
PlayerColorsAllowsEqual(assignedColorP1, assignedColorP2) ==
    IF assignedColorP1 \notin ALLOWED_COLORS \/ assignedColorP2 \notin ALLOWED_COLORS
    THEN << BLACK, WHITE >>
    ELSE << assignedColorP1, assignedColorP2 >>

\* The pair << p1_color, p2_color >> after the validation.
PlayerColors(assignedColorP1, assignedColorP2) ==
    LET initializedInvalidColor ==
            \/ assignedColorP1 \notin ALLOWED_COLORS
            \/ assignedColorP2 \notin ALLOWED_COLORS
    IN  IF initializedInvalidColor \/ assignedColorP1 = assignedColorP2
        THEN << BLACK, WHITE >>
        ELSE << assignedColorP1, assignedColorP2 >>

\* No board has been constructed yet.
CtorInit ==
    /\ NoBoard
    /\ start = [ctor |-> "none", p1Turn |-> TRUE]
    /\ cin = NoInput
    /\ lastOp = "none"
    /\ lastRet = FALSE
    /\ color_ = [p \in PieceIds |-> DefaultColor]
    /\ row_ = [p \in PieceIds |-> -1]
    /\ column_ = [p \in PieceIds |-> -1]
    /\ movingUp_ = [p \in PieceIds |-> FALSE]
    /\ type_ = [p \in PieceIds |-> "NULL"]
    /\ has_moved_ = [p \in PieceIds |-> FALSE]
    /\ castle_moves_left_ = [p \in PieceIds |-> NULL]

\* The constructor: the validation, then add_mirrored for every column,
\* each piece being given the colour of its player.
Construct ==
    /\ start.ctor = "none"
    /\ \E assignedColorP1 \in ColorArgs, assignedColorP2 \in ColorArgs :
          LET colors == PlayerColors(assignedColorP1, assignedColorP2)
          IN  /\ cin' = [assignedColorP1 |-> assignedColorP1,
                         assignedColorP2 |-> assignedColorP2]
              /\ start' = [ctor |-> "standard", p1Turn |-> TRUE,
                           p1_color |-> colors[1], p2_color |-> colors[2]]
              /\ color_' = [p \in PieceIds |->
                              IF CtorRow(p) <= 1 THEN CtorColor(colors[1])
                              ELSE CtorColor(colors[2])]
    /\ board' = [r \in Idx |-> [c \in Idx |-> NewPiece(r, c)]]
    /\ playerOneTurn' = TRUE
    /\ row_' = [p \in PieceIds |-> CtorPos(CtorRow(p), CtorCol(p))[1]]
    /\ column_' = [p \in PieceIds |-> CtorPos(CtorRow(p), CtorCol(p))[2]]
    /\ movingUp_' = [p \in PieceIds |-> CtorRow(p) = 1]
    /\ type_' = [p \in PieceIds |->
                    IF CtorRow(p) \in {1, 6} THEN "PAWN"
                    ELSE inner_pieces[CtorCol(p) + 1]]
    /\ has_moved_' = [p \in PieceIds |-> FALSE]
    /\ castle_moves_left_' = [p \in PieceIds |->
                    IF CtorRow(p) \in {0, 7} /\ inner_pieces[CtorCol(p) + 1] = "ROOK"
                    THEN RookCtorCastleMoves(castle_move_capacity) ELSE NULL]
    /\ lastOp' = "ChessBoard"
    /\ UNCHANGED << past_moves_, lastRet, lastExit, trace, before >>

CtorNext == Construct

CtorSpec == CtorInit /\ [][CtorNext]_vars

(***************************************************************************)
(* A Rook and a second piece used directly: the position setters of        *)
(* ChessPiece, the calls ChessBoard::move makes on the piece it moves, and *)
(* Rook::canCastle.  cin holds the piece called and the argument.          *)
(***************************************************************************)
other == 2

\* Rook::canCastle without the comparison of the colours.
canCastleAnyColor(p, target) ==
    IF castle_moves_left_[p] = 0 THEN FALSE
    ELSE IF \/ row_[p] < 0 \/ column_[p] < 0
            \/ row_[target] < 0 \/ column_[target] < 0 THEN FALSE
    ELSE IF \/ row_[p] # row_[target]
            \/ Abs(column_[p] - column_[target]) > 1 THEN FALSE
    ELSE TRUE

\* Rook::canCastle(target) called on the rook p
canCastle(p, target) ==
    IF castle_moves_left_[p] = 0 \/ color_[p] # color_[target] THEN FALSE
    ELSE IF \/ row_[p] < 0 \/ column_[p] < 0
            \/ row_[target] < 0 \/ column_[target] < 0 THEN FALSE
    ELSE IF \/ row_[p] # row_[target]
            \/ Abs(column_[p] - column_[target]) > 1 THEN FALSE
    ELSE TRUE

\* The integers given as a row or a column: one below the range, three in
\* it, and the first one above it.
Coords == {-1, 0, 1, 3, BOARD_LENGTH}

\* The capacities the Rook constructor is given.
Capacities == {-1, 0, 1}

\* Rook(color, row, col, false) or Rook(color, row, col, false, capacity),
\* and King(color, row, col) for the second piece.
RookInit ==
    /\ NoBoard
    /\ \E supplied \in BOOLEAN, capacity \in Capacities \cup {castle_move_capacity} :
          /\ supplied <=> capacity \in Capacities
          /\ start = [ctor |-> "Rook", p1Turn |-> TRUE,
                      supplied |-> supplied, capacity |-> capacity]
          /\ castle_moves_left_ = [p \in PieceIds |->
                    IF p = this THEN RookCtorCastleMoves(capacity) ELSE NULL]
    /\ \E row \in Coords, col \in Coords, orow \in Coords, ocol \in Coords :
          /\ row_ = [p \in PieceIds |->
                        IF p = this THEN CtorPos(row, col)[1]
                        ELSE IF p = other THEN CtorPos(orow, ocol)[1] ELSE -1]
          /\ column_ = [p \in PieceIds |->
                        IF p = this THEN CtorPos(row, col)[2]
                        ELSE IF p = other THEN CtorPos(orow, ocol)[2] ELSE -1]
    /\ \E color \in {p1_color, p2_color} :
          color_ = [p \in PieceIds |-> IF p = other THEN color ELSE "BLACK"]
    /\ type_ = [p \in PieceIds |->
                    IF p = this THEN "ROOK" ELSE IF p = other THEN "KING" ELSE "NULL"]
    /\ movingUp_ = [p \in PieceIds |-> FALSE]
    /\ has_moved_ = [p \in PieceIds |-> FALSE]
    /\ cin = [piece |-> this, arg |-> << >>]
    /\ lastOp = "Rook"
    /\ lastRet = FALSE

\* piece->setRow(row)
CallSetRow ==
    /\ \E q \in {this, other}, row \in Coords :
          LET rc == setRow(<< row_[q], column_[q] >>, row)
          IN  /\ cin' = [piece |-> q, arg |-> << row >>]
              /\ row_' = [row_ EXCEPT ![q] = rc[1]]
              /\ column_' = [column_ EXCEPT ![q] = rc[2]]
    /\ lastOp' = "setRow"
    /\ UNCHANGED << board, playerOneTurn, past_moves_, color_, movingUp_, type_,
                    has_moved_, castle_moves_left_, lastRet, lastExit, start,
                    trace, before >>

\* piece->setColumn(column)
CallSetColumn ==
    /\ \E q \in {this, other}, column \in Coords :
          LET rc == setColumn(<< row_[q], column_[q] >>, column)
          IN  /\ cin' = [piece |-> q, arg |-> << column >>]
              /\ row_' = [row_ EXCEPT ![q] = rc[1]]
              /\ column_' = [column_ EXCEPT ![q] = rc[2]]
    /\ lastOp' = "setColumn"
    /\ UNCHANGED << board, playerOneTurn, past_moves_, color_, movingUp_, type_,
                    has_moved_, castle_moves_left_, lastRet, lastExit, start,
                    trace, before >>

\* What an accepted ChessBoard::move does to the piece it moves: the piece
\* passed canMove, so it is not off the board and the cell is on the grid.
MovedByBoard ==
    /\ \E q \in {this, other}, new_row \in Coords \cap Idx, new_col \in Coords \cap Idx :
          LET afterRow == setRow(<< row_[q], column_[q] >>, new_row)
              rc == setColumn(afterRow, new_col)
          IN  /\ ~OffBoardPiece(q)
              /\ cin' = [piece |-> q, arg |-> << new_row, new_col >>]
              /\ row_' = [row_ EXCEPT ![q] = rc[1]]
              /\ column_' = [column_ EXCEPT ![q] = rc[2]]
              /\ has_moved_' = flagMoved(has_moved_, q)
    /\ lastOp' = "move"
    /\ UNCHANGED << board, playerOneTurn, past_moves_, color_, movingUp_, type_,
                    castle_moves_left_, lastRet, lastExit, start, trace, before >>

\* this->canCastle(target), with the rook itself or the second piece
CallCanCastle ==
    /\ \E target \in {this, other} :
          /\ cin' = [piece |-> this, arg |-> << target >>]
          /\ lastRet' = canCastle(this, target)
    /\ lastOp' = "canCastle"
    /\ UNCHANGED << board, playerOneTurn, past_moves_, pieceVars, lastExit,
                    start, trace, before >>

RookNext ==
    \/ CallSetRow
    \/ CallSetColumn
    \/ MovedByBoard
    \/ CallCanCastle

RookSpec == RookInit /\ [][RookNext]_vars

(***************************************************************************)
(* The number of times the body of the loop of a canMove runs, counted as  *)
(* the call runs it; canMove called on a piece in a corner of the grid.    *)
(***************************************************************************)
\* The count given to a loop that has left the grid, and that nothing in
\* it would stop any more.
Unbounded == BOARD_LENGTH * BOARD_LENGTH

\* A rook's loop that does not compare its cell with the target.
RECURSIVE RookScanStepsPastTarget(_, _, _, _, _, _, _)
RookScanStepsPastTarget(temp_row, temp_col, target_row, target_col, increment_row, increment_col, n) ==
    LET r == temp_row + increment_row
        c == temp_col + increment_col
    IN  IF OutOfBounds(r, c) THEN Unbounded
        ELSE IF board[r][c] # NULL THEN n + 1
        ELSE RookScanStepsPastTarget(r, c, target_row, target_col,
                                     increment_row, increment_col, n + 1)

\* The rook's loop: n bodies have run.
RECURSIVE RookScanSteps(_, _, _, _, _, _, _)
RookScanSteps(temp_row, temp_col, target_row, target_col, increment_row, increment_col, n) ==
    IF temp_row = target_row /\ temp_col = target_col THEN n
    ELSE LET r == temp_row + increment_row
             c == temp_col + increment_col
         IN  IF OutOfBounds(r, c) THEN Unbounded
             ELSE IF board[r][c] # NULL THEN n + 1
             ELSE RookScanSteps(r, c, target_row, target_col,
                                increment_row, increment_col, n + 1)

\* The loop of the bishop and of the queen: n bodies have run.
RECURSIVE OffsetScanSteps(_, _, _, _, _, _)
OffsetScanSteps(p, dx, dy, row_offset, col_offset, n) ==
    LET dx1 == dx - row_offset
    IN  IF dx1 = 0 THEN n
        ELSE LET dy1 == dy - col_offset
                 r == row_[p] + dx1
                 c == column_[p] + dy1
             IN  IF dy1 = 0 THEN n
                 ELSE IF OutOfBounds(r, c) THEN Unbounded
                 ELSE IF board[r][c] # NULL THEN n + 1
                 ELSE OffsetScanSteps(p, dx1, dy1, row_offset, col_offset, n + 1)

\* The bodies canMove(target_row, target_col, board) of piece p runs: the
\* pawn, the knight and the king have no loop.
canMoveSteps(p, target_row, target_col) ==
    IF OffBoardPiece(p) \/ OutOfBounds(target_row, target_col) THEN 0
    ELSE IF SameColorTarget(p, target_row, target_col) THEN 0
    ELSE
      LET dx == target_row - row_[p]
          dy == target_col - column_[p]
          no_movement == dx = 0 /\ dy = 0
          straight == dx = 0 \/ dy = 0
          diagonal == Abs(dx) = Abs(dy)
      IN  CASE type_[p] = "ROOK" /\ straight /\ ~no_movement ->
                   RookScanSteps(row_[p], column_[p], target_row, target_col,
                                 IF dx > 0 THEN 1 ELSE IF dx < 0 THEN -1 ELSE 0,
                                 IF dy > 0 THEN 1 ELSE IF dy < 0 THEN -1 ELSE 0,
                                 0)
            [] type_[p] = "BISHOP" /\ diagonal /\ ~no_movement ->
                   OffsetScanSteps(p, dx, dy, Sign(dx), Sign(dy), 0)
            [] type_[p] = "QUEEN" /\ (straight \/ diagonal) /\ ~no_movement ->
                   OffsetScanSteps(p, dx, dy,
                                   IF dx # 0 THEN Sign(dx) ELSE 0,
                                   IF dy # 0 THEN Sign(dy) ELSE 0,
                                   0)
            [] OTHER -> 0

\* The cells the piece is constructed on: two opposite corners.
CornerSquares == { << 0, 0 >>, << BOARD_LENGTH - 1, BOARD_LENGTH - 1 >> }

\* The cells of the one further piece: on the lines from the corners.
RaySquares ==
    { << 0, 4 >>, << 0, BOARD_LENGTH - 1 >>, << 4, 0 >>,
      << BOARD_LENGTH - 1, 0 >>, << 4, 4 >> }

\* No further piece, or one of either colour.
RayPlacements ==
    { << >> } \cup
    { << [sq |-> sq, color |-> color] >> :
          sq \in RaySquares, color \in {p1_color, p2_color} }

\* A piece of one of the six classes is constructed on a corner and the
\* grid is built around it.
ScanInit ==
    /\ \E t \in PieceTypes, sq \in CornerSquares, others \in RayPlacements :
          LET pos == CtorPos(sq[1], sq[2])
              n == Len(others)
          IN  /\ board = PieceGrid(pos, others)
              /\ type_ = [p \in PieceIds |->
                              IF p = this THEN t
                              ELSE IF p <= this + n THEN "PAWN" ELSE "NULL"]
              /\ color_ = [p \in PieceIds |->
                              IF p > this /\ p <= this + n
                              THEN others[p - this].color ELSE "BLACK"]
              /\ row_ = [p \in PieceIds |->
                              IF p = this THEN pos[1]
                              ELSE IF p <= this + n THEN others[p - this].sq[1]
                              ELSE -1]
              /\ column_ = [p \in PieceIds |->
                              IF p = this THEN pos[2]
                              ELSE IF p <= this + n THEN others[p - this].sq[2]
                              ELSE -1]
              /\ movingUp_ = [p \in PieceIds |-> p = this /\ sq[1] = 0]
              /\ has_moved_ = [p \in PieceIds |-> FALSE]
              /\ castle_moves_left_ = [p \in PieceIds |->
                              IF p = this /\ t = "ROOK"
                              THEN RookCtorCastleMoves(castle_move_capacity)
                              ELSE NULL]
    /\ start = [ctor |-> "piece", p1Turn |-> TRUE]
    /\ playerOneTurn = TRUE
    /\ past_moves_ = << >>
    /\ cin = NoInput
    /\ lastOp = "none"
    /\ lastRet = FALSE
    /\ lastExit = "none"
    /\ trace = << >>
    /\ before = << >>

ScanSpec == ScanInit /\ [][PieceNext]_vars

(***************************************************************************)
(* Pawn::canPromote, on a board whose pawns stand one row from the far     *)
(* end.  After the call cin holds the pawn it was made on.                 *)
(***************************************************************************)
\* A pawn that only promotes on the last row.
canPromoteUpOnly(p) == movingUp_[p] /\ row_[p] = BOARD_LENGTH - 1

\* Pawn::canPromote
canPromote(p) ==
    \/ movingUp_[p] /\ row_[p] = BOARD_LENGTH - 1
    \/ ~movingUp_[p] /\ row_[p] = 0

\* The pieces of the injected position: a pawn of each player one row from
\* the end, a knight the first can take on the last row, and one pawn on
\* its first row.
PromotePieces ==
    << [type |-> "PAWN",   color |-> "BLACK", row |-> 6, col |-> 3, up |-> TRUE],
       [type |-> "PAWN",   color |-> "WHITE", row |-> 1, col |-> 4, up |-> FALSE],
       [type |-> "KNIGHT", color |-> "WHITE", row |-> 7, col |-> 4, up |-> FALSE],
       [type |-> "PAWN",   color |-> "BLACK", row |-> 1, col |-> 3, up |-> TRUE] >>

PromoteCell(r, c) ==
    LET here == { i \in 1 .. Len(PromotePieces) :
                    PromotePieces[i].row = r /\ PromotePieces[i].col = c }
    IN  IF here = {} THEN NULL ELSE CHOOSE i \in here : TRUE

\* ChessBoard(instance, p1Turn) on that position.
PromoteInit ==
    /\ start \in { [ctor |-> "promotion", p1Turn |-> t] : t \in BOOLEAN }
    /\ board = [r \in Idx |-> [c \in Idx |-> PromoteCell(r, c)]]
    /\ playerOneTurn = start.p1Turn
    /\ color_ = [p \in PieceIds |->
                    IF p <= Len(PromotePieces) THEN PromotePieces[p].color
                    ELSE "BLACK"]
    /\ row_ = [p \in PieceIds |->
                    IF p <= Len(PromotePieces)
                    THEN CtorPos(PromotePieces[p].row, PromotePieces[p].col)[1]
                    ELSE -1]
    /\ column_ = [p \in PieceIds |->
                    IF p <= Len(PromotePieces)
                    THEN CtorPos(PromotePieces[p].row, PromotePieces[p].col)[2]
                    ELSE -1]
    /\ movingUp_ = [p \in PieceIds |->
                    IF p <= Len(PromotePieces) THEN PromotePieces[p].up ELSE FALSE]
    /\ type_ = [p \in PieceIds |->
                    IF p <= Len(PromotePieces) THEN PromotePieces[p].type
                    ELSE "NULL"]
    /\ has_moved_ = [p \in PieceIds |-> FALSE]
    /\ castle_moves_left_ = [p \in PieceIds |-> NULL]
    /\ past_moves_ = << >>
    /\ cin = NoInput
    /\ lastOp = "none"
    /\ lastRet = FALSE
    /\ lastExit = "none"
    /\ trace = << >>
    /\ before = << >>

\* pawn->canPromote(), between two rounds
CallCanPromote ==
    /\ cin = NoInput
    /\ \E q \in { p \in 1 .. Len(PromotePieces) : type_[p] = "PAWN" } :
          /\ cin' = [piece |-> q, arg |-> << >>]
          /\ lastRet' = canPromote(q)
    /\ lastOp' = "canPromote"
    /\ UNCHANGED << board, playerOneTurn, past_moves_, pieceVars, lastExit,
                    start, trace, before >>

PromoteNext ==
    \/ lastOp # "canPromote" /\ UserInput
    \/ lastOp # "canPromote" /\ attemptRound
    \/ CallCanPromote

PromoteSpec == PromoteInit /\ [][PromoteNext]_vars

(***************************************************************************)
(* The rounds of a board with a log of the rounds that succeeded, kept in  *)
(* start.log: the call made, the grid it found, and for a move whether     *)
(* its destination was occupied.                                           *)
(***************************************************************************)
\* Number of rounds that succeed in a run.
MaxLogged == 4

Log == IF "log" \in DOMAIN start THEN start.log ELSE << >>

\* The cells typed in these runs: two neighbouring columns between the
\* back ranks.
RoundTripSquares == (1 .. (BOARD_LENGTH - 2)) \X InCols

RoundTripInputs ==
    { [stage |-> 0, src |-> << 0, 0 >>, dst |-> << 0, 0 >>] }
    \cup { [stage |-> 2, src |-> s, dst |-> d] :
              s \in RoundTripSquares, d \in RoundTripSquares }

\* The user types the input of the next round.
RoundTripInput ==
    /\ cin = NoInput
    /\ Len(Log) < MaxLogged
    /\ cin' \in RoundTripInputs
    /\ lastOp' = "none"
    /\ lastRet' = FALSE
    /\ lastExit' = "none"
    /\ UNCHANGED << board, playerOneTurn, past_moves_, pieceVars, start,
                    trace, before >>

\* attemptRound, and the entry of the log if it returned true.
LoggedRound ==
    /\ cin # NoInput
    /\ cin' = NoInput
    /\ \/ UndoOnFirstInput
       \/ UndoOnSecondInput
       \/ MoveRound
    /\ start' =
          IF lastRet'
          THEN [ctor |-> start.ctor, p1Turn |-> start.p1Turn,
                log |-> Append(Log,
                    [op |-> lastOp', grid |-> board,
                     captured |-> /\ cin.stage = 2
                                  /\ board[cin.dst[1]][cin.dst[2]] # NULL])]
          ELSE start

RoundTripNext == RoundTripInput \/ LoggedRound

RoundTripSpec == Init /\ [][RoundTripNext]_vars

(***************************************************************************)
(* The rounds of a board followed by its destruction.  After               *)
(* ~ChessBoard, cin.deleted[p] is the number of times piece p was deleted. *)
(***************************************************************************)
\* The constructors push the occupant of every non-empty cell of the grid
\* they built on the list pieces: the number of entries of each piece.
EntriesIn(grid) ==
    [p \in PieceIds |->
        Cardinality({ sq \in Idx \X Idx : grid[sq[1]][sq[2]] = p })]

\* The list of the standard board and of the injected position.
StandardEntries == EntriesIn([r \in Idx |-> [c \in Idx |-> NewPiece(r, c)]])

InjectedEntries == EntriesIn([r \in Idx |-> [c \in Idx |-> TestCell(r, c)]])

\* A destructor that deletes the pieces found on the grid.
DestructorDeletesGrid == EntriesIn(board)

\* ~ChessBoard: delete for every entry of the list pieces.
DestructorDeletes ==
    IF start.ctor = "standard" THEN StandardEntries ELSE InjectedEntries

\* The board is destroyed between two rounds.
ChessBoardDestructor ==
    /\ lastOp # "~ChessBoard"
    /\ cin = NoInput
    /\ cin' = [deleted |-> DestructorDeletes]
    /\ lastOp' = "~ChessBoard"
    /\ UNCHANGED << board, playerOneTurn, past_moves_, pieceVars, lastRet,
                    lastExit, start, trace, before >>

TeardownNext ==
    \/ lastOp # "~ChessBoard" /\ UserInput
    \/ lastOp # "~ChessBoard" /\ attemptRound
    \/ ChessBoardDestructor

TeardownSpec == Init /\ [][TeardownNext]_vars

(***************************************************************************)
(* The claims.                                                             *)
(***************************************************************************)
OnGrid(sq) == sq[1] \in Idx /\ sq[2] \in Idx

At(b, sq) == b[sq[1]][sq[2]]

\* The step is a round that calls move() / a round that calls undo().
MoveStep == cin.stage = 2
UndoStep == cin.stage \in {0, 1}

\* The grid and the turn the constructor call left.
InitialGrid ==
    IF start.ctor = "standard"
    THEN [r \in Idx |-> [c \in Idx |-> NewPiece(r, c)]]
    ELSE [r \in Idx |-> [c \in Idx |-> TestCell(r, c)]]

InitialTurn == start.p1Turn

AllMoves(t) == \A i \in 1 .. Len(t) : t[i].op = "move"

\* N successful moves followed by N successful undos, for some N >= 0.
MovesThenUndos(t) ==
    /\ Len(t) % 2 = 0
    /\ \A i \in 1 .. Len(t) :
           t[i].op = IF 2 * i <= Len(t) THEN "move" ELSE "undo"

IsMove(e) == e.op = "move"

\* C1: a successful undo() directly after a successful, recorded move leaves
\* every grid cell as it was before that move, a captured piece back on
\* the destination included.
C1_UndoRestoresGrid ==
    [][ (UndoStep /\ lastRet' /\ trace # << >> /\ Top(trace).op = "move")
            => board' = Top(before).board ]_vars

\* C2: a successful undo() flips the turn flag, so that a successful move
\* directly followed by a successful undo leaves the turn flag as it was
\* before the move.
C2_UndoFlipsTurn ==
    [][ (UndoStep /\ lastRet')
            => /\ playerOneTurn' = ~playerOneTurn
               /\ (trace # << >> /\ Top(trace).op = "move")
                      => playerOneTurn' = Top(before).playerOneTurn ]_vars

\* C3: every successful move flips the turn flag exactly once: after k
\* successful moves and no undo it is the first player's turn again iff k is
\* even, and no two successive successful moves are made by the same player.
C3_MoveFlipsTurn ==
    /\ AllMoves(trace) => ((playerOneTurn = InitialTurn) <=> Len(trace) % 2 = 0)
    /\ LET movers == SelectSeq(trace, IsMove)
       IN  \A i \in 1 .. (Len(movers) - 1) : movers[i].color # movers[i + 1].color

\* C3 happens: three successful moves and no undo.
C3_Witness == Len(trace) >= 3 /\ AllMoves(trace)

\* C4: N successful moves followed by N undos leave every grid cell and the
\* turn flag as they were at the start.
C4_RoundTrip ==
    MovesThenUndos(trace) => board = InitialGrid /\ playerOneTurn = InitialTurn

\* C5: from the standard board on, every occupied cell (r, c) holds a piece
\* whose stored row is r and whose stored column is c.
C5_CellMatchesPosition ==
    start.ctor = "standard" =>
        \A r \in Idx, c \in Idx :
            board[r][c] # NULL =>
                row_[board[r][c]] = r /\ column_[board[r][c]] = c

\* C6: a move() that returns false changes nothing: grid, every piece's row,
\* column and has-moved flag, turn flag and history stack.
C6_RejectedMoveChangesNothing ==
    [][ (MoveStep /\ ~lastRet')
            => UNCHANGED << board, row_, column_, has_moved_, playerOneTurn,
                            past_moves_ >> ]_vars

\* C6 happens: with Moves on the history stack, a move() was rejected by the
\* piece's canMove.
C6_Witness ==
    lastOp = "move" /\ ~lastRet /\ lastExit = "cannot_move" /\ past_moves_ # << >>

\* The five conditions of C7, read on the state move() is called in.
C7_Conditions(row, col, new_row, new_col) ==
    /\ row \in Idx /\ col \in Idx
    /\ board[row][col] # NULL
    /\ color_[board[row][col]] = (IF playerOneTurn THEN p1_color ELSE p2_color)
    /\ canMove(board[row][col], new_row, new_col)
    /\ ~(board[new_row][new_col] # NULL
           /\ type_[board[new_row][new_col]] = "KING")

\* C7: move() returns true iff the source is on the grid, holds a piece of
\* the colour to move, that piece's canMove accepts the destination, and the
\* destination holds no king.
C7_MoveReturnsTrueIff ==
    [][ MoveStep
            => (lastRet' <=>
                   C7_Conditions(cin.src[1], cin.src[2], cin.dst[1], cin.dst[2]))
      ]_vars

\* C7 happens: a move was accepted on a grid on which a piece stands where
\* an undo left it.
C7_Witness ==
    /\ lastOp = "move" /\ lastRet
    /\ \E i \in 1 .. Len(trace) : trace[i].op = "undo"

\* C8: a move whose destination holds a king returns false and leaves the
\* grid unchanged.
C8_KingIsNeverCaptured ==
    [][ (MoveStep /\ OnGrid(cin.dst) /\ At(board, cin.dst) # NULL
           /\ type_[At(board, cin.dst)] = "KING")
            => (~lastRet' /\ board' = board) ]_vars

\* C8 happens: move() reached the king test and returned false there.
C8_Witness == lastOp = "move" /\ lastExit = "king" /\ ~lastRet

\* C9: after a move() that returns true the destination holds the piece that
\* was on the source, the source is empty, the piece's stored position is
\* the destination, it is flagged moved, and nothing else has changed.
C9_AcceptedMoveEffect ==
    [][ (MoveStep /\ lastRet')
            => LET p == At(board, cin.src)
               IN  /\ At(board', cin.dst) = p
                   /\ At(board', cin.src) = NULL
                   /\ row_'[p] = cin.dst[1]
                   /\ column_'[p] = cin.dst[2]
                   /\ has_moved_'[p]
                   /\ \A r \in Idx, c \in Idx :
                          (<< r, c >> # cin.src /\ << r, c >> # cin.dst)
                              => board'[r][c] = board[r][c]
                   /\ \A q \in PieceIds \ {p} :
                          /\ row_'[q] = row_[q]
                          /\ column_'[q] = column_[q]
                          /\ has_moved_'[q] = has_moved_[q] ]_vars

\* C9 happens: a move onto an occupied cell was accepted.
C9_Witness ==
    /\ lastOp = "move" /\ lastRet
    /\ At(Top(before).board, Top(past_moves_).to_) # NULL

\* C10: undo() on an empty history returns false and changes nothing;
\* undo() returns true exactly when the history is not empty.
C10_UndoOnEmptyHistory ==
    [][ UndoStep
            => /\ lastRet' <=> (past_moves_ # << >>)
               /\ past_moves_ = << >>
                      => UNCHANGED << board, pieceVars, playerOneTurn,
                                      past_moves_ >> ]_vars

\* C10 happens: an undo round returned false.
C10_Witness == lastOp = "undo" /\ ~lastRet

\* C11: after a successful undo() the piece whose move was undone stores the
\* origin square of that move as its row and column, and a piece the move
\* had captured stores the destination square.
C11_UndoRestoresStoredPosition ==
    [][ (UndoStep /\ lastRet')
            => LET previous_move == Top(past_moves_)
                   moved_piece == previous_move.moved_piece_
                   captured_piece == previous_move.captured_piece_
               IN  /\ row_'[moved_piece] = previous_move.from_[1]
                   /\ column_'[moved_piece] = previous_move.from_[2]
                   /\ captured_piece # NULL
                          => /\ row_'[captured_piece] = previous_move.to_[1]
                             /\ column_'[captured_piece] = previous_move.to_[2]
      ]_vars

\* The history stack after the first k rounds of the scenario.
ScenarioMoves(k) ==
    [i \in 1 .. k |->
        Move(ScenarioInputs[i].src, ScenarioInputs[i].dst,
             At(InitialGrid, ScenarioInputs[i].src), NULL)]

\* The first k rounds of the scenario, and nothing else, have been played
\* on a fresh standard board.
ScenarioPlayed(k) ==
    /\ start.ctor = "standard"
    /\ Len(trace) = k
    /\ past_moves_ = ScenarioMoves(k)

\* C12: on a fresh standard board move(1,0,2,0) returns true, then
\* move(6,0,4,0) returns true, then move(0,0,0,1) returns false and leaves
\* the grid unchanged.
C12_OpeningScenario ==
    [][ /\ (ScenarioPlayed(0) /\ cin = ScenarioInputs[1]) => lastRet'
        /\ (ScenarioPlayed(1) /\ cin = ScenarioInputs[2]) => lastRet'
        /\ (ScenarioPlayed(2) /\ cin = ScenarioInputs[3])
               => (~lastRet' /\ board' = board) ]_vars

\* C12 happens: after the two pawn moves the rook's move was rejected.
C12_Witness ==
    /\ ScenarioPlayed(2)
    /\ lastOp = "move" /\ ~lastRet /\ lastExit = "cannot_move"
    /\ row_[NewPiece(1, 0)] = 2 /\ row_[NewPiece(6, 0)] = 4

\* A canMove call on a piece of class t has returned.
Called(t) == lastOp = "canMove" /\ type_[this] = t

\* The piece canMove was called on stores a cell of the board.
ThisOnBoard == row_[this] \in Idx /\ column_[this] \in Idx

\* The target of the call is a cell, and holds a piece of the colour of the
\* piece called / of the other colour / no piece.
TargetOwn ==
    OnGrid(cin.dst) /\ At(board, cin.dst) # NULL
        /\ color_[At(board, cin.dst)] = color_[this]

TargetOpposing ==
    OnGrid(cin.dst) /\ At(board, cin.dst) # NULL
        /\ color_[At(board, cin.dst)] # color_[this]

TargetEmpty == OnGrid(cin.dst) /\ At(board, cin.dst) = NULL

\* The precondition of C14..C19: an on-board piece and an in-range target
\* not holding a piece of its colour.
PlainCall(t) == Called(t) /\ ThisOnBoard /\ OnGrid(cin.dst) /\ ~TargetOwn

\* Row and column delta of the call.
RowDelta == cin.dst[1] - row_[this]
ColDelta == cin.dst[2] - column_[this]

Sgn(x) == IF x > 0 THEN 1 ELSE IF x < 0 THEN -1 ELSE 0
Max(a, b) == IF a >= b THEN a ELSE b

OnStraightLine == (RowDelta = 0) # (ColDelta = 0)
OnDiagonal == Abs(RowDelta) = Abs(ColDelta) /\ RowDelta # 0

\* The cells strictly between the piece and the target along their line.
Between ==
    { << row_[this] + k * Sgn(RowDelta), column_[this] + k * Sgn(ColDelta) >> :
        k \in 1 .. (Max(Abs(RowDelta), Abs(ColDelta)) - 1) }

ClearBetween == \A sq \in Between : At(board, sq) = NULL

\* C13: canMove of each of the six classes returns false if the piece is
\* off the board, if the target row or column is outside [0, 8), and if the
\* target holds a piece of the mover's colour.
C13_CommonGuards ==
    \A t \in PieceTypes :
        (Called(t) /\ (~ThisOnBoard \/ ~OnGrid(cin.dst) \/ TargetOwn)) => ~lastRet

\* C13 happens: a knight was called with an L-shaped target that holds a
\* piece of its own colour.
C13_Witness ==
    /\ Called("KNIGHT") /\ ThisOnBoard /\ TargetOwn
    /\ {Abs(RowDelta), Abs(ColDelta)} = {1, 2}
    /\ ~lastRet

\* C14: for an on-board rook and an in-range target not holding a piece of
\* its colour, canMove is true iff the motion is along a row or a column,
\* not zero, and every cell strictly between is empty, whatever stands on
\* the target.
C14_RookLegalIff ==
    PlainCall("ROOK") => (lastRet <=> (OnStraightLine /\ ClearBetween))

\* C15: for an on-board queen and an in-range target not holding a piece of
\* its colour, canMove is true iff the motion is along a row, a column or a
\* diagonal, not zero, and every cell strictly between is empty.
C15_QueenLegalIff ==
    PlainCall("QUEEN") =>
        (lastRet <=> ((OnStraightLine \/ OnDiagonal) /\ ClearBetween))

\* C16: for an on-board bishop and an in-range target not holding a piece
\* of its colour, canMove is true iff |row delta| = |column delta| # 0 and
\* every diagonal cell strictly between is empty.
C16_BishopLegalIff ==
    PlainCall("BISHOP") => (lastRet <=> (OnDiagonal /\ ClearBetween))

\* C16 happens: a bishop was refused a diagonal target because of a piece
\* on a cell in between.
C16_Witness ==
    PlainCall("BISHOP") /\ OnDiagonal /\ ~ClearBetween /\ ~lastRet

\* C17: for an on-board knight and an in-range target not holding a piece
\* of its colour, canMove is true iff (|row delta|, |column delta|) is (1, 2)
\* or (2, 1), whatever stands on the other cells.
C17_KnightLegalIff ==
    PlainCall("KNIGHT") =>
        (lastRet <=> ( \/ Abs(RowDelta) = 1 /\ Abs(ColDelta) = 2
                       \/ Abs(RowDelta) = 2 /\ Abs(ColDelta) = 1 ))

\* C17 happens: a knight was granted a target with a piece standing on a
\* cell next to it, on the way to the target.
C17_Witness ==
    /\ PlainCall("KNIGHT") /\ lastRet
    /\ \E sq \in OtherSquares :
          /\ At(board, sq) # NULL
          /\ sq # cin.dst
          /\ Abs(sq[1] - row_[this]) <= 1 /\ Abs(sq[2] - column_[this]) <= 1
          /\ Abs(sq[1] - cin.dst[1]) <= 1 /\ Abs(sq[2] - cin.dst[2]) <= 1

\* C18: for an on-board king and an in-range target not holding a piece of
\* its colour, canMove is true iff the row delta and the column delta are
\* both in {-1, 0, 1} and not both zero.
C18_KingLegalIff ==
    PlainCall("KING") =>
        (lastRet <=> ( /\ RowDelta \in {-1, 0, 1}
                       /\ ColDelta \in {-1, 0, 1}
                       /\ ~(RowDelta = 0 /\ ColDelta = 0) ))

\* C18 happens: a king was granted a diagonal step onto an opposing piece.
C18_Witness ==
    /\ PlainCall("KING") /\ lastRet
    /\ Abs(RowDelta) = 1 /\ Abs(ColDelta) = 1 /\ TargetOpposing

\* Direction of the pawn canMove was called on.
PawnDirection == IF movingUp_[this] THEN 1 ELSE -1

\* C19: for an on-board pawn with direction d and an in-range target,
\* canMove is true iff either the target is in the pawn's column, empty,
\* and on row + d, or on row + 2d when the pawn has never moved, whatever
\* stands in between; or the target holds an opposing piece, one column
\* aside, on row + d.
C19_PawnLegalIff ==
    (Called("PAWN") /\ ThisOnBoard /\ OnGrid(cin.dst)) =>
        (lastRet <=>
            \/ /\ ColDelta = 0
               /\ TargetEmpty
               /\ \/ RowDelta = PawnDirection
                  \/ ~has_moved_[this] /\ RowDelta = 2 * PawnDirection
            \/ /\ TargetOpposing
               /\ Abs(ColDelta) = 1
               /\ RowDelta = PawnDirection)

\* C19 happens: a pawn that has never moved was granted a two-row advance
\* over an occupied cell.
C19_Witness ==
    /\ Called("PAWN") /\ ThisOnBoard /\ lastRet
    /\ RowDelta = 2 * PawnDirection
    /\ ~ClearBetween

\* C20: a pawn is granted a two-row advance only while its has-moved flag
\* is false: in every state, whatever moves and undos led to it, canMove
\* refuses a pawn flagged as moved the cell two rows ahead of the cell it
\* stands on.
C20_NoDoubleJumpOnceMoved ==
    \A r \in Idx, c \in Idx :
        LET pawn == board[r][c]
            direction == IF movingUp_[pawn] THEN 1 ELSE -1
        IN  (pawn # NULL /\ type_[pawn] = "PAWN" /\ has_moved_[pawn])
                => ~canMove(pawn, r + 2 * direction, c)

\* C21: move() with a source or a destination coordinate outside [0, 8)
\* returns false and changes nothing, and every grid cell move(), undo() and
\* the scan of a canMove index lies in [0, 8) x [0, 8).
C21_OnlyGridCellsIndexed ==
    [][ /\ MoveStep =>
              /\ (~OnGrid(cin.src) \/ ~OnGrid(cin.dst))
                     => (~lastRet' /\ UNCHANGED << board, pieceVars, playerOneTurn,
                                                   past_moves_ >>)
              /\ moveReads(cin.src[1], cin.src[2], cin.dst[1], cin.dst[2])
                     \subseteq Idx \X Idx
              /\ moveWrites(cin.src[1], cin.src[2], cin.dst[1], cin.dst[2])
                     \subseteq Idx \X Idx
        /\ UndoStep => undoCells(past_moves_) \subseteq Idx \X Idx ]_vars

\* C21 happens: after an undo has left a piece on a cell other than the one
\* it stores, a move() with a source off the grid was rejected.
C21_Witness ==
    /\ lastOp = "move" /\ lastExit = "source_off_board" /\ ~lastRet
    /\ \E r \in Idx, c \in Idx :
          board[r][c] # NULL /\ row_[board[r][c]] # r

\* The step has carried the piece on the source of the input to its
\* destination / has reverted the Move on top of the history stack.
MoveSucceeded ==
    /\ OnGrid(cin.src) /\ OnGrid(cin.dst)
    /\ At(board, cin.src) # NULL
    /\ At(board', cin.dst) = At(board, cin.src)
    /\ At(board', cin.src) = NULL

UndoSucceeded ==
    /\ past_moves_ # << >>
    /\ past_moves_' = Pop(past_moves_)

\* C22: a round in which the source pair or the destination pair failed to
\* parse attempts no move, calls undo() and returns its result; a move is
\* attempted only when both pairs parsed; the round returns true iff a move
\* succeeded or an undo succeeded.
C22_ParseFailureMeansUndo ==
    [][ /\ UndoStep =>
              /\ lastOp' = "undo"
              /\ UNCHANGED << pieceVars, playerOneTurn >>
              /\ Len(past_moves_') <= Len(past_moves_)
              /\ lastRet' <=> UndoSucceeded
        /\ MoveStep =>
              /\ lastOp' = "move"
              /\ Len(past_moves_') >= Len(past_moves_)
              /\ lastRet' <=> MoveSucceeded
        /\ lastOp' = "move" => cin.stage = 2
      ]_vars

\* C22 happens: a round whose input did not parse has undone the second of
\* two recorded moves.
C22_Witness ==
    /\ lastOp = "undo" /\ lastRet
    /\ Len(past_moves_) = 1 /\ Len(trace) = 3

IsUndo(e) == e.op = "undo"

\* Successful moves minus successful undos of a run.
Depth(t) == Len(SelectSeq(t, IsMove)) - Len(SelectSeq(t, IsUndo))

\* C23: the history stack grows by exactly one Move on a round whose move
\* succeeds and is unchanged by a rejected move; a successful undo removes
\* exactly the top Move and nothing below it; the depth of the stack is the
\* number of successful moves minus the number of successful undos.
C23_HistoryIsLifo ==
    [][ /\ (MoveStep /\ lastRet')
               => /\ past_moves_' # << >>
                  /\ past_moves_' = Append(past_moves_, Top(past_moves_'))
                  /\ Top(past_moves_').from_ = cin.src
                  /\ Top(past_moves_').to_ = cin.dst
        /\ (MoveStep /\ ~lastRet') => past_moves_' = past_moves_
        /\ (UndoStep /\ lastRet')
               => /\ past_moves_ # << >>
                  /\ past_moves_ = Append(past_moves_', Top(past_moves_))
        /\ (UndoStep /\ ~lastRet') => past_moves_' = past_moves_
        /\ Len(past_moves_) = Depth(trace)
        /\ Len(past_moves_') = Depth(trace') ]_vars

\* C23 happens: a move, its undo, and a second move which is now the only
\* Move on the stack.
C23_Witness ==
    /\ Len(trace) = 3 /\ trace[2].op = "undo"
    /\ lastOp = "move" /\ lastRet
    /\ Len(past_moves_) = 1

\* The cells of grid b that hold piece p.
CellsOf(b, p) == { sq \in Idx \X Idx : At(b, sq) = p }

\* C24: in every state reached from the standard board by moves and undos
\* (the state each round ends in) no piece is on more than one cell, and
\* every piece on a cell is one of the pieces the board owns.
C24_OnePieceOneCell ==
    (start.ctor = "standard" /\ cin = NoInput) =>
        LET occupied == { sq \in Idx \X Idx : At(board, sq) # NULL }
            occupants == { At(board, sq) : sq \in occupied }
        IN  /\ Cardinality(occupants) = Cardinality(occupied)
            /\ occupants \subseteq pieces

\* C24 happens: on the standard board a capture has been undone, and the
\* captured piece is on no cell.
C24_Witness ==
    /\ start.ctor = "standard"
    /\ lastOp = "undo" /\ lastRet
    /\ \E p \in pieces : CellsOf(board, p) = {}

\* The back rank of the claim, column 0 first.
BackRank ==
    << "ROOK", "KNIGHT", "BISHOP", "KING", "QUEEN", "BISHOP", "KNIGHT", "ROOK" >>

\* The standard constructor has run and no round has succeeded since.
FreshStandardBoard == start.ctor = "standard" /\ trace = << >>

\* C25: the standard constructor leaves the back rank ROOK, KNIGHT, BISHOP,
\* KING, QUEEN, BISHOP, KNIGHT, ROOK on rows 0 and 7, pawns on rows 1 and 6,
\* rows 2..5 empty, the row-1 pawns moving up and the row-6 pawns not, player
\* one's colour on rows 0-1 and player two's on rows 6-7, every stored
\* position equal to the cell, no piece flagged moved, player one to move
\* and an empty history.
C25_StandardLayout ==
    FreshStandardBoard =>
        /\ \A c \in Idx :
              /\ board[0][c] # NULL /\ type_[board[0][c]] = BackRank[c + 1]
              /\ board[7][c] # NULL /\ type_[board[7][c]] = BackRank[c + 1]
              /\ board[1][c] # NULL /\ type_[board[1][c]] = "PAWN"
              /\ board[6][c] # NULL /\ type_[board[6][c]] = "PAWN"
              /\ movingUp_[board[1][c]] /\ ~movingUp_[board[6][c]]
              /\ \A r \in 2 .. 5 : board[r][c] = NULL
              /\ \A r \in {0, 1} : color_[board[r][c]] = p1_color
              /\ \A r \in {6, 7} : color_[board[r][c]] = p2_color
              /\ \A r \in {0, 1, 6, 7} :
                    /\ row_[board[r][c]] = r
                    /\ column_[board[r][c]] = c
                    /\ ~has_moved_[board[r][c]]
        /\ Cardinality({ At(board, sq) : sq \in {0, 1, 6, 7} \X Idx }) = 32
        /\ playerOneTurn
        /\ past_moves_ = << >>

\* C25 happens: the standard board as constructed, before any input.
C25_Witness == FreshStandardBoard /\ cin = NoInput /\ lastOp = "none"

\* The board was constructed with the two colour arguments held in cin.
Constructed == lastOp = "ChessBoard"

\* C26: after ChessBoard(c1, c2), the player colours are BLACK and WHITE if
\* c1 or c2 is not an allowed colour or c1 = c2, and c1 and c2 otherwise;
\* they are two different allowed colours, and every piece has the colour
\* of the player on whose side it was placed.
C26_PlayerColors ==
    Constructed =>
        LET c1 == cin.assignedColorP1
            c2 == cin.assignedColorP2
        IN  /\ IF c1 \notin ALLOWED_COLORS \/ c2 \notin ALLOWED_COLORS \/ c1 = c2
               THEN start.p1_color = BLACK /\ start.p2_color = WHITE
               ELSE start.p1_color = c1 /\ start.p2_color = c2
            /\ start.p1_color # start.p2_color
            /\ {start.p1_color, start.p2_color} \subseteq ALLOWED_COLORS
            /\ \A r \in Idx, c \in Idx :
                  At(board, << r, c >>) # NULL =>
                      color_[At(board, << r, c >>)] =
                          IF r <= 1 THEN start.p1_color ELSE start.p2_color
            /\ \E r \in Idx, c \in Idx : At(board, << r, c >>) # NULL

\* C26 happens: the same allowed colour was given to both players and the
\* pieces are black and white.
C26_Witness ==
    /\ Constructed
    /\ cin.assignedColorP1 = << "R", "E", "D" >>
    /\ cin.assignedColorP2 = << "R", "E", "D" >>
    /\ color_[NewPiece(0, 0)] = BLACK /\ color_[NewPiece(7, 0)] = WHITE

\* The string is made of letters only / s with every letter upper-cased.
AllLetters(s) == \A i \in DOMAIN s : isalpha(s[i])
UpperCased(s) == [i \in DOMAIN s |-> toupper(s[i])]

\* C27: setColor(s) returns false and leaves the colour as it was if s
\* holds a character that is not a letter; otherwise it returns true and the
\* colour is s with every letter upper-cased.
C27_SetColor ==
    [][ lastOp' = "setColor" =>
            IF AllLetters(cin'.color)
            THEN lastRet' /\ color_'[this] = UpperCased(cin'.color)
            ELSE ~lastRet' /\ color_'[this] = color_[this] ]_vars

\* C27 happens: a string that starts with a letter and holds a digit was
\* refused on a piece whose colour an earlier call had set.
C27_Witness ==
    /\ lastOp = "setColor" /\ ~lastRet
    /\ cin.color # << >> /\ isalpha(cin.color[1])
    /\ color_[this] # DefaultColor /\ color_[this] # << >>

\* C28: whatever string the piece is constructed with and whatever strings
\* setColor is called with, the empty string included, the colour of the
\* piece is a non-empty string of upper-case letters.
C28_ColorNonEmptyUpperCase ==
    /\ color_[this] # << >>
    /\ \A i \in DOMAIN color_[this] :
          \E k \in DOMAIN UpperCase : color_[this][i] = UpperCase[k]

\* C29: whatever integers a piece is constructed with and whatever setRow,
\* setColumn and moves by the board follow, its stored row is -1 exactly
\* when its stored column is -1, and otherwise both are in 0 .. 7.
C29_RowAndColumnTogether ==
    \A p \in {this, other} :
        /\ row_[p] = -1 <=> column_[p] = -1
        /\ row_[p] # -1 => (row_[p] \in Idx /\ column_[p] \in Idx)

\* The stored position of the piece is a cell of the board.
StoredOnBoard(p) == row_[p] \in Idx /\ column_[p] \in Idx

Occupants(b) == { At(b, sq) : sq \in Idx \X Idx } \ {NULL}

\* C31: the pieces the board owns are the occupants of the grid the
\* constructor built, whatever moves and undos followed, and the destructor
\* deletes each of them exactly once and nothing else, the pieces that were
\* captured and stand on no cell included.
C31_TeardownReleasesAll ==
    /\ trace = << >> => pieces = Occupants(board)
    /\ lastOp = "~ChessBoard" =>
          LET owned == pieces
          IN  /\ owned = Occupants(InitialGrid)
              /\ \A p \in PieceIds :
                    cin.deleted[p] = IF p \in owned THEN 1 ELSE 0

\* C31 happens: the board is destroyed after a capture, and the captured
\* piece, on no cell of the grid, has been deleted.
C31_Witness ==
    /\ lastOp = "~ChessBoard"
    /\ \E p \in pieces : CellsOf(board, p) = {} /\ cin.deleted[p] = 1

\* C32: the Move pushed after a successful move from a to b holds a, b, the
\* piece that moved and, as the captured piece, the piece that stood on b
\* just before the move (none when b was empty); the Moves below it on the
\* stack stay as they were pushed.
C32_MoveRecordsCapture ==
    [][ /\ (MoveStep /\ lastRet') =>
               /\ Len(past_moves_') = Len(past_moves_) + 1
               /\ Top(past_moves_').from_ = cin.src
               /\ Top(past_moves_').to_ = cin.dst
               /\ Top(past_moves_').moved_piece_ = At(board, cin.src)
               /\ Top(past_moves_').captured_piece_ = At(board, cin.dst)
        /\ \A i \in 1 .. Len(past_moves_) :
               i <= Len(past_moves_') => past_moves_'[i] = past_moves_[i] ]_vars

\* C33: whatever the piece, the grid and the integer target, the loop of
\* canMove ends without leaving the grid after at most 7 bodies.
C33_ScanIsBounded ==
    lastOp = "canMove" =>
        canMoveSteps(this, cin.dst[1], cin.dst[2]) <= BOARD_LENGTH - 1

\* C33 happens: a rook in a corner was asked for the far end of its empty
\* row, and its loop ran 7 bodies.
C33_Witness ==
    /\ lastOp = "canMove"
    /\ type_[this] = "ROOK"
    /\ canMoveSteps(this, cin.dst[1], cin.dst[2]) = BOARD_LENGTH - 1
    /\ lastRet

\* C34: canPromote is true exactly when the pawn moves up and its stored
\* row is 7, or moves down and its stored row is 0; whatever rounds were
\* played, every piece has the type it was constructed with.
C34_CanPromote ==
    /\ lastOp = "canPromote" =>
          ( lastRet <=>
                IF movingUp_[cin.piece] THEN row_[cin.piece] = 7
                ELSE row_[cin.piece] = 0 )
    /\ \A p \in 1 .. Len(PromotePieces) : type_[p] = PromotePieces[p].type

\* C34 happens: a pawn that a move put on the last row can promote and is
\* still a pawn.
C34_Witness ==
    /\ lastOp = "canPromote" /\ lastRet
    /\ trace # << >> /\ Top(trace).op = "move"
    /\ type_[cin.piece] = "PAWN"
    /\ \E c \in Idx : board[7][c] = cin.piece

\* The cells of the grid that hold a king of the given colour.
KingCells(color) ==
    { sq \in Idx \X Idx :
        /\ At(board, sq) # NULL
        /\ type_[At(board, sq)] = "KING"
        /\ color_[At(board, sq)] = color }

\* C35: after every sequence of rounds on the standard board (the state
\* each round ends in) the grid holds exactly two kings, one of the colour
\* of each player.
C35_TwoKings ==
    (start.ctor = "standard" /\ cin = NoInput) =>
        /\ Cardinality(KingCells(p1_color)) = 1
        /\ Cardinality(KingCells(p2_color)) = 1
        /\ \A sq \in Idx \X Idx :
              (At(board, sq) # NULL /\ type_[At(board, sq)] = "KING")
                  => color_[At(board, sq)] \in {p1_color, p2_color}

\* C35 happens: on the standard board a queen that has taken a pawn next to
\* the other player's king is refused the king's cell, and both kings are
\* on the grid.
C35_Witness ==
    /\ start.ctor = "standard" /\ cin = NoInput
    /\ lastOp = "move" /\ lastExit = "king"
    /\ Len(trace) >= 2
    /\ KingCells(p1_color) # {} /\ KingCells(p2_color) # {}

\* The last 2 * N entries of the log are N moves onto empty cells and then
\* N undos.
MovesOntoEmptyThenUndos(N) ==
    /\ 2 * N <= Len(Log)
    /\ \A i \in 1 .. N :
          /\ Log[Len(Log) - 2 * N + i].op = "move"
          /\ ~Log[Len(Log) - 2 * N + i].captured
          /\ Log[Len(Log) - N + i].op = "undo"

\* C36: after N successful moves, none of them onto an occupied cell, and
\* then N successful undos, every cell of the grid holds what it held
\* before the first of the moves.
C36_RoundTripWithoutCapture ==
    \A N \in 1 .. Len(Log) :
        MovesOntoEmptyThenUndos(N) => board = Log[Len(Log) - 2 * N + 1].grid

\* C36 happens: two moves onto empty cells and two undos, and the grid is
\* the one the first move found.
C36_Witness ==
    /\ MovesOntoEmptyThenUndos(2)
    /\ Log[Len(Log) - 3].grid # Log[Len(Log) - 2].grid
    /\ board = Log[Len(Log) - 3].grid

\* The displacement (dr, dc) is one the rule of the piece p allows: the
\* knight's two shapes, one step of the king, a line of the rook, the
\* bishop and the queen, and for the pawn one row forward, or two rows
\* forward on its column if it has never moved.
FollowsGeometry(p, dr, dc) ==
    LET forward == IF movingUp_[p] THEN 1 ELSE -1
    IN  CASE type_[p] = "KNIGHT" -> {Abs(dr), Abs(dc)} = {1, 2}
          [] type_[p] = "KING" -> Abs(dr) <= 1 /\ Abs(dc) <= 1
          [] type_[p] = "ROOK" -> dr = 0 \/ dc = 0
          [] type_[p] = "BISHOP" -> Abs(dr) = Abs(dc)
          [] type_[p] = "QUEEN" -> dr = 0 \/ dc = 0 \/ Abs(dr) = Abs(dc)
          [] type_[p] = "PAWN" ->
                 \/ dr = forward /\ Abs(dc) <= 1
                 \/ dr = 2 * forward /\ dc = 0 /\ ~has_moved_[p]
          [] OTHER -> FALSE

\* C37: in the rounds played from the standard board, every move that
\* succeeds takes the piece from the cell it stood on by a displacement its
\* own rule allows.
C37_MoveFollowsGeometry ==
    [][ (start.ctor = "standard" /\ MoveStep /\ lastRet') =>
            FollowsGeometry(At(board, cin.src),
                            cin.dst[1] - cin.src[1],
                            cin.dst[2] - cin.src[2]) ]_vars

====
